---- MODULE Spec2Model ----
\* A model of the tutorial "Adding an Environment": the construction of the
\* ControlSuiteEnvironment wrapper around a DeepMind Control Suite simulator, with
\* the methods __init__ runs through Environment.reset_internal_state, the methods
\* _take_action, _restart_environment_episode and _update_state called on the object
\* as __init__ left it, and the DDPG preset's rename of the input embedder key.
EXTENDS Integers, Sequences, FiniteSets, TLC

VARIABLES
    pc,               \* "new" before __init__, then "idle" between calls and "update"
                      \* when a call has returned and _update_state is due
    init_raised,      \* the exception that left __init__, "none" when none did
    observation_spec, \* self.env.observation_spec(): a sequence of [name, shape]
    frame_skip,       \* the frame_skip argument of __init__
    env,              \* self.env, the simulator
    state_space,      \* self.state_space
    action_space,     \* self.action_space
    last_result,      \* self.last_result: None before the first result, then a TimeStep
    state,            \* self.state
    pixels,           \* self.pixels
    measurements,     \* self.measurements
    reward,           \* self.reward: None or Some(number)
    done,             \* self.done
    calls,            \* the calls of wrapper methods the latest step made, in order,
                      \* each with how it ended
    preset_pc,        \* position in the preset cell
    default_wrappers, \* the input embedders DDPGAgentParameters() came with
    network_wrappers  \* agent_params.network_wrappers[..].input_embedders_parameters

env_vars == <<pc, init_raised, observation_spec, frame_skip, env, state_space, action_space,
              last_result, state, pixels, measurements, reward, done, calls>>
preset_vars == <<preset_pc, default_wrappers, network_wrappers>>
vars == <<env_vars, preset_vars>>

------------------------------------------------------------------------------
\* Bounds of the model.

\* Longest rank-1 observation of a generated observation spec.
MaxVecLen == 2
\* Most observations in a generated observation spec (before the pixels wrapper).
MaxObs == 2
\* Largest frame_skip handed to __init__.
MaxFrameSkip == 2

\* Values an element of a numeric observation takes.
Vals == {0, 1}
\* Values of a rendered image's elements.
Dark == 0
Bright == 255
\* Rewards a step of the simulator gives.
Rewards == {0, 1}
\* Values of an element of the action the agent supplies.
ActionVals == {-2, 0, 2}


------------------------------------------------------------------------------
\* Python's None; a number that may be None is None or Some(number).

None == <<>>
Some(x) == <<x>>

\* A dict as a function from its keys to its values.
EmptyDict == <<>>
dict_set(d, k, v) == [x \in DOMAIN d \cup {k} |-> IF x = k THEN v ELSE d[x]]
dict_del(d, k) == [x \in DOMAIN d \ {k} |-> d[x]]

------------------------------------------------------------------------------
\* numpy arrays: [shape, data], data the elements in row-major order.

RECURSIVE Product(_)
Product(shape) == IF shape = <<>> THEN 1 ELSE Head(shape) * Product(Tail(shape))

\* The array of a shape with every element v.
Filled(shape, v) == [shape |-> shape, data |-> [i \in 1..Product(shape) |-> v]]

\* np.array([])
np_array_empty == [shape |-> <<0>>, data |-> <<>>]

\* np.array([x])
np_array_of(x) == [shape |-> <<1>> \o x.shape, data |-> x.data]

\* np.concatenate((a, b)) raises ValueError unless a and b have the same number of
\* dimensions (at least one) and agree in every dimension but the first.
np_concatenate_raises(a, b) ==
    \/ Len(a.shape) = 0
    \/ Len(a.shape) # Len(b.shape)
    \/ Tail(a.shape) # Tail(b.shape)

np_concatenate(a, b) ==
    [shape |-> <<a.shape[1] + b.shape[1]>> \o Tail(a.shape), data |-> a.data \o b.data]

------------------------------------------------------------------------------
\* The simulator: dm_control's suite.load(...) wrapped by pixels.Wrapper.

ImageShape == <<1, 1, 3>>

\* pixels.Wrapper(env, pixels_only=False): the observations of env, then 'pixels'.
pixels_Wrapper(spec) == Append(spec, [name |-> "pixels", shape |-> ImageShape])

\* self.env.action_spec()
action_spec == [shape |-> <<2>>, minimum |-> <<-1, 0>>, maximum |-> <<1, 2>>]

\* The observations the simulator can return under an observation spec: one value
\* fills the numeric observations, and the image is dark with the least value and
\* bright with any other.
Observations(spec) ==
    {[i \in DOMAIN spec |->
         [name |-> spec[i].name,
          value |-> Filled(spec[i].shape,
                           IF spec[i].name # "pixels" THEN v
                           ELSE IF \A w \in Vals : v <= w THEN Dark ELSE Bright)]] :
        v \in Vals}

TimeStep(step_type, r, observation) ==
    [step_type |-> step_type, reward |-> r, observation |-> observation]

\* TimeStep.last()
last(ts) == ts.step_type = "LAST"

\* What a call of the simulator does: it raises or returns a timestep, and leaves the
\* simulator in state sim.
Outcome(raised, ts, sim) == [raised |-> raised, timestep |-> ts, sim |-> sim]

\* The simulator after a call: whether the next step starts a new episode, the calls
\* received since the wrapper method began, and what the last call returned or that
\* it raised.
Simulator(reset_next_step, log, returned, raised) ==
    [reset_next_step |-> reset_next_step, log |-> log, returned |-> returned,
     raised |-> raised]

Succeeds(ts, reset_next_step, log) ==
    Outcome(FALSE, ts, Simulator(reset_next_step, log, ts, FALSE))

Fails(sim, log) ==
    Outcome(TRUE, None, Simulator(sim.reset_next_step, log, None, TRUE))

\* env.reset(): the first timestep of a new episode (no reward), or a failure.
env_reset(sim, spec) ==
    LET logged == Append(sim.log, [method |-> "reset", action |-> <<>>])
    IN {Succeeds(TimeStep("FIRST", None, o), FALSE, logged) : o \in Observations(spec)}
       \cup {Fails(sim, logged)}

\* env.step(action): the next timestep with its reward, the last one ending the
\* episode; a step before any reset or after the last timestep starts a new episode;
\* or a failure.
env_step(sim, spec, action) ==
    LET logged == Append(sim.log, [method |-> "step", action |-> action])
    IN (IF sim.reset_next_step
        THEN {Succeeds(TimeStep("FIRST", None, o), FALSE, logged) :
                 o \in Observations(spec)}
        ELSE {Succeeds(TimeStep(t, Some(r), o), t = "LAST", logged) :
                 t \in {"MID", "LAST"}, r \in Rewards, o \in Observations(spec)})
       \cup {Fails(sim, logged)}

\* The simulator as a wrapper method begins: no call received yet.
called(sim) == [sim EXCEPT !.log = <<>>]

------------------------------------------------------------------------------
\* ControlSuiteEnvironment.__init__

\* A variant that numbers the names from 1.
measurements_names_from_one(name, n) == [i \in 1..n |-> name \o "_" \o ToString(i)]

\* "{}_{}".format(observation_space_name, i) for i in range(n)
measurements_names_of(name, n) == [i \in 1..n |-> name \o "_" \o ToString(i - 1)]

\* The loop over self.env.observation_spec().items(): from entry i on, with the size
\* and the names gathered so far.
RECURSIVE measurements_loop(_, _, _, _)
measurements_loop(spec, i, size, names) ==
    IF i > Len(spec) THEN [shape |-> size, measurements_names |-> names]
    ELSE LET observation_space == spec[i]
         IN IF Len(observation_space.shape) = 0
            THEN measurements_loop(spec, i + 1, size + 1,
                                   Append(names, observation_space.name))
            ELSE IF Len(observation_space.shape) = 1
            THEN measurements_loop(spec, i + 1, size + observation_space.shape[1],
                                   names \o measurements_names_of(observation_space.name,
                                                                  observation_space.shape[1]))
            ELSE measurements_loop(spec, i + 1, size, names)

\* VectorObservationSpace(shape=measurements_space_size, measurements_names=...)
MeasurementsSpace(spec) == measurements_loop(spec, 1, 0, <<>>)

\* The shape of the observation named key.
shape_of(spec, key) ==
    LET i == CHOOSE j \in DOMAIN spec : spec[j].name = key IN spec[i].shape

\* self.state_space after the image and measurements observations are added.
StateSpace(spec) ==
    dict_set(dict_set(EmptyDict, "pixels",
                      [shape |-> shape_of(spec, "pixels"), high |-> 255]),
             "measurements", MeasurementsSpace(spec))

\* BoxActionSpace(shape, low, high)
BoxActionSpace(aspec) ==
    [type |-> "BoxActionSpace", shape |-> aspec.shape[1],
     low |-> aspec.minimum, high |-> aspec.maximum]

\* The observation specs of generated domains: up to MaxObs observations of rank 0,
\* rank 1 (of length up to MaxVecLen) or rank 2.
ObsNames == <<"position", "velocity", "height", "touch", "orientations">>
Shapes == {<<>>} \cup {<<n>> : n \in 0..MaxVecLen} \cup {<<1, 2>>}
GeneratedSpecs ==
    UNION {{[i \in 1..n |-> [name |-> ObsNames[i], shape |-> f[i]]] :
               f \in [1..n -> Shapes]} : n \in 1..MaxObs}
------------------------------------------------------------------------------
\* rl_coach.spaces.BoxActionSpace.clip_action_to_space: np.clip(action, low, high)

Min(a, b) == IF a <= b THEN a ELSE b
Max(a, b) == IF a >= b THEN a ELSE b
clip_action_to_space(space, action) ==
    [i \in DOMAIN action |-> Min(Max(action[i], space.low[i]), space.high[i])]

------------------------------------------------------------------------------
\* The attributes of the wrapper that its methods read and assign.

Attributes(lr, st, px, ms, r, d) ==
    [last_result |-> lr, state |-> st, pixels |-> px, measurements |-> ms,
     reward |-> r, done |-> d]

\* Environment.__init__: state = {}, reward = 0, done = False; last_result, pixels and
\* measurements are not set yet.
Environment_init == Attributes(None, EmptyDict, None, None, Some(0), FALSE)

\* How a call of a method ended: the exception that left it, the attributes it left
\* and the simulator it left.
Ended(raised, self, sim) == [raised |-> raised, self |-> self, env |-> sim]

\* The record of a call: the method, its arguments, the exception that left it, the
\* calls the simulator received during it, whether the simulator raised and what it
\* returned, and the attributes the call left.
Call(op, action, force, ended) ==
    [op |-> op, action |-> action, force |-> force, raised |-> ended.raised,
     env_calls |-> ended.env.log, env_raised |-> ended.env.raised,
     env_returned |-> ended.env.returned, after |-> ended.self]

------------------------------------------------------------------------------
\* ControlSuiteEnvironment._update_state

\* self.last_result.observation[key]
observation_value(observation, key) ==
    LET i == CHOOSE j \in DOMAIN observation : observation[j].name = key
    IN observation[i].value

\* The loop over self.last_result.observation.values(): from value i on, with the
\* measurements concatenated so far. It ends when np.concatenate raises.
RECURSIVE concatenate_loop(_, _, _)
concatenate_loop(observation, i, acc) ==
    IF i > Len(observation) THEN [raised |-> FALSE, measurements |-> acc]
    ELSE LET sub_observation == observation[i].value
             piece == IF Len(sub_observation.shape) = 1
                      THEN sub_observation
                      ELSE np_array_of(sub_observation)
         IN IF np_concatenate_raises(acc, piece)
            THEN [raised |-> TRUE, measurements |-> acc]
            ELSE concatenate_loop(observation, i + 1, np_concatenate(acc, piece))

\* self.reward = self.last_result.reward if self.last_result.reward is not None else 0
reward_of(ts) == IF ts.reward # None THEN ts.reward ELSE Some(0)

\* _update_state on the attributes self: the exception that leaves it and the
\* attributes it leaves. Without a last_result it ends at the read of
\* self.last_result, after self.state = {}. When np.concatenate raises, self.state
\* holds 'pixels' alone and the reward and done assignments are not reached.
_update_state(self, sim) ==
    IF self.last_result = None
    THEN Ended("AttributeError", [self EXCEPT !.state = EmptyDict], called(sim))
    ELSE LET observation == self.last_result.observation
             px == observation_value(observation, "pixels")
             loop == concatenate_loop(observation, 1, np_array_empty)
         IN IF loop.raised
            THEN Ended("ValueError",
                       [self EXCEPT !.state = dict_set(EmptyDict, "pixels", px),
                                    !.pixels = px,
                                    !.measurements = loop.measurements],
                       called(sim))
            ELSE Ended("none",
                       [self EXCEPT !.state = dict_set(dict_set(EmptyDict, "pixels", px),
                                                       "measurements", loop.measurements),
                                    !.pixels = px,
                                    !.measurements = loop.measurements,
                                    !.reward = reward_of(self.last_result),
                                    !.done = last(self.last_result)],
                       called(sim))

------------------------------------------------------------------------------
\* ControlSuiteEnvironment._take_action and _restart_environment_episode

\* The actions an agent can supply, one value in every dimension: in and out of the
\* bounds of the action space.
AgentActions(space) == {[i \in 1..space.shape |-> v] : v \in ActionVals}

\* A variant that hands the agent's action to env.step as it is.
action_unclipped(space, action) == action

\* The action handed to env.step: clipped when the action space is a BoxActionSpace.
action_to_step(space, action) ==
    IF space.type = "BoxActionSpace" THEN clip_action_to_space(space, action) ELSE action

\* A variant that swallows the simulator's failure and stores None as the result.
ReturnedFallback(self, outcome) ==
    Ended("none", [self EXCEPT !.last_result = outcome.timestep], outcome.sim)

\* What a call of the simulator makes of the attributes: the result is stored as
\* last_result, or the simulator's failure leaves the method and nothing is stored.
Returned(self, outcome) ==
    IF outcome.raised
    THEN Ended("PhysicsError", self, outcome.sim)
    ELSE Ended("none", [self EXCEPT !.last_result = outcome.timestep], outcome.sim)

\* A variant that steps the simulator frame_skip times, stopping at a failure.
RECURSIVE env_step_times(_, _, _, _)
env_step_times(sim, spec, action, n) ==
    IF n <= 1 THEN env_step(sim, spec, action)
    ELSE UNION {IF first.raised THEN {first}
                ELSE env_step_times(first.sim, spec, action, n - 1) :
                   first \in env_step(sim, spec, action)}

take_action_frame_skip(self, sim, spec, space, action) ==
    {Returned(self, outcome) :
        outcome \in env_step_times(called(sim), spec, action_to_step(space, action),
                                   frame_skip)}

\* self.last_result = self.env.step(action), action clipped first.
_take_action(self, sim, spec, space, action) ==
    {Returned(self, outcome) :
        outcome \in env_step(called(sim), spec, action_to_step(space, action))}

\* self.last_result = self.env.reset()
_restart_environment_episode(self, sim, spec, force_environment_reset) ==
    {Returned(self, outcome) : outcome \in env_reset(called(sim), spec)}

------------------------------------------------------------------------------
\* ControlSuiteEnvironment.__init__

\* Environment.reset_internal_state(force_environment_reset): the episode is
\* restarted, reward and done are cleared, and _update_state reads the first state.
\* An exception of either method leaves it. It gives how it ended and the calls made.
reset_internal_state(self, sim, spec, force_environment_reset) ==
    {LET restart == Call("_restart_environment_episode", <<>>, force_environment_reset,
                         restarted)
         fresh == [restarted.self EXCEPT !.reward = Some(0), !.done = FALSE]
         updated == _update_state(fresh, restarted.env)
     IN IF restarted.raised # "none"
        THEN [raised |-> restarted.raised, self |-> restarted.self,
              env |-> restarted.env, calls |-> <<restart>>]
        ELSE [raised |-> updated.raised, self |-> updated.self, env |-> updated.env,
              calls |-> <<restart, Call("_update_state", <<>>, FALSE, updated)>>] :
        restarted \in _restart_environment_episode(self, sim, spec,
                                                   force_environment_reset)}

\* The attributes the step leaves become the attributes of the object.
Assigned(self) ==
    /\ last_result' = self.last_result
    /\ state' = self.state
    /\ pixels' = self.pixels
    /\ measurements' = self.measurements
    /\ reward' = self.reward
    /\ done' = self.done

\* The whole of __init__: Environment.__init__ sets the defaults, the state space and
\* the action space are declared, and reset_internal_state(True) gets the first state.
\* An exception of reset_internal_state leaves __init__; the object keeps the
\* attributes assigned until then.
Construct ==
    /\ pc = "new"
    /\ state_space' = StateSpace(observation_spec)
    /\ action_space' = BoxActionSpace(action_spec)
    /\ \E ended \in reset_internal_state(Environment_init, env, observation_spec, TRUE) :
          /\ env' = ended.env
          /\ Assigned(ended.self)
          /\ calls' = ended.calls
          /\ init_raised' = ended.raised
    /\ pc' = "idle"
    /\ UNCHANGED <<observation_spec, frame_skip, preset_vars>>

------------------------------------------------------------------------------
\* The methods, called on the object as __init__ left it.

\* self, as a method finds it.
Self == Attributes(last_result, state, pixels, measurements, reward, done)

\* A call of a method ended: _update_state is due when _take_action or
\* _restart_environment_episode returned, and not when an exception left it.
Called(op, action, force, ended) ==
    /\ env' = ended.env
    /\ Assigned(ended.self)
    /\ calls' = <<Call(op, action, force, ended)>>
    /\ pc' = IF op # "_update_state" /\ ended.raised = "none" THEN "update" ELSE "idle"
    /\ UNCHANGED <<init_raised, observation_spec, frame_skip, state_space, action_space,
                   preset_vars>>

TakeAction ==
    /\ pc = "idle"
    /\ \E action \in AgentActions(action_space) :
          \E ended \in _take_action(Self, env, observation_spec, action_space, action) :
              Called("_take_action", action, FALSE, ended)

Restart ==
    /\ pc = "idle"
    /\ \E force_environment_reset \in BOOLEAN :
          \E ended \in _restart_environment_episode(Self, env, observation_spec,
                                                    force_environment_reset) :
              Called("_restart_environment_episode", <<>>, force_environment_reset, ended)

UpdateState ==
    /\ pc = "update"
    /\ Called("_update_state", <<>>, FALSE, _update_state(Self, env))

------------------------------------------------------------------------------
\* The preset cell: d['measurements'] = d.pop('observation') for the actor, then for
\* the critic.

\* InputEmbedderParameters
EmbedderParameters == [batchnorm : BOOLEAN, scheme : {"Medium", "Shallow"}]

\* DDPGAgentParameters(): the actor embeds 'observation', the critic 'observation'
\* and 'action'.
DDPGAgentParameters ==
    {[actor |-> dict_set(EmptyDict, "observation", a),
      critic |-> dict_set(dict_set(EmptyDict, "observation", c), "action", x)] :
        a \in EmbedderParameters, c \in EmbedderParameters, x \in EmbedderParameters}

DefaultAgentParameters ==
    [actor |-> dict_set(EmptyDict, "observation", [batchnorm |-> TRUE, scheme |-> "Medium"]),
     critic |-> dict_set(dict_set(EmptyDict, "observation",
                                  [batchnorm |-> TRUE, scheme |-> "Medium"]),
                         "action", [batchnorm |-> FALSE, scheme |-> "Shallow"])]

\* A variant that reads 'observation' without popping it.
rename_keeping_observation(d) == dict_set(d, "measurements", d["observation"])

rename_input_embedder(d) ==
    dict_set(dict_del(d, "observation"), "measurements", d["observation"])

RenameActor ==
    /\ preset_pc = "agent_params"
    /\ network_wrappers' =
          [network_wrappers EXCEPT !.actor = rename_input_embedder(@)]
    /\ preset_pc' = "actor_renamed"
    /\ UNCHANGED <<env_vars, default_wrappers>>

RenameCritic ==
    /\ preset_pc = "actor_renamed"
    /\ network_wrappers' =
          [network_wrappers EXCEPT !.critic = rename_input_embedder(@)]
    /\ preset_pc' = "done"
    /\ UNCHANGED <<env_vars, default_wrappers>>

------------------------------------------------------------------------------
\* The specifications.

\* No wrapper has been constructed: the arguments of __init__ and the simulator
\* suite.load will give.
NewEnvironment(spec, skip) ==
    /\ pc = "new"
    /\ init_raised = "none"
    /\ observation_spec = spec
    /\ frame_skip = skip
    /\ env = Simulator(TRUE, <<>>, None, FALSE)
    /\ state_space = EmptyDict
    /\ action_space = None
    /\ last_result = None
    /\ state = EmptyDict
    /\ pixels = None
    /\ measurements = None
    /\ reward = None
    /\ done = FALSE
    /\ calls = <<>>

NoPreset ==
    /\ preset_pc = "none"
    /\ default_wrappers = DefaultAgentParameters
    /\ network_wrappers = DefaultAgentParameters

\* A domain is about to be wrapped.
Init ==
    /\ \E d \in GeneratedSpecs, skip \in 1..MaxFrameSkip :
          NewEnvironment(pixels_Wrapper(d), skip)
    /\ NoPreset

\* The preset cell is about to run on fresh DDPGAgentParameters().
InitPreset ==
    /\ NewEnvironment(pixels_Wrapper(<<[name |-> "position", shape |-> <<2>>]>>), 1)
    /\ preset_pc = "agent_params"
    /\ default_wrappers \in DDPGAgentParameters
    /\ network_wrappers = default_wrappers

Next ==
    \/ Construct
    \/ TakeAction
    \/ Restart
    \/ UpdateState

\* The construction of the wrapper, then its methods called in any order, each call
\* that returns followed by _update_state.
Spec == Init /\ [][Next]_vars

NextPreset == RenameActor \/ RenameCritic

\* The preset cell.
SpecPreset == InitPreset /\ [][NextPreset]_vars

------------------------------------------------------------------------------
\* The claims.

rank(entry) == Len(entry.shape)

UpdateCalls == {i \in DOMAIN calls : calls[i].op = "_update_state"}
SimulatorCalls ==
    {i \in DOMAIN calls : calls[i].op \in {"_take_action", "_restart_environment_episode"}}

\* C1: after _update_state, self.state has exactly the keys 'pixels' and
\* 'measurements'; state['pixels'] is the 'pixels' observation of the last result and
\* state['measurements'] is a flat vector whose length is the size of the declared
\* measurements space.
C1_StateFollowsStateSpace ==
    \A i \in UpdateCalls :
        LET self == calls[i].after
        IN /\ DOMAIN self.state = {"pixels", "measurements"}
           /\ self.state["pixels"] = observation_value(self.last_result.observation, "pixels")
           /\ Len(self.state["measurements"].shape) = 1
           /\ self.state["measurements"].shape[1] = state_space["measurements"].shape

\* C2: after _update_state, self.reward is a number, never None: the reward of the
\* most recent simulator result, and 0 exactly when that result carries no reward.
C2_RewardOfLastResult ==
    \A i \in UpdateCalls :
        LET self == calls[i].after
        IN /\ self.reward # None
           /\ self.last_result.reward # None => self.reward = self.last_result.reward
           /\ self.reward = Some(0) <=> self.last_result.reward = None

\* C3: after _update_state, self.done is a boolean that is true if and only if the
\* most recent simulator result is the last timestep of its episode.
C3_DoneIffLast ==
    \A i \in UpdateCalls :
        LET self == calls[i].after
        IN /\ self.done \in BOOLEAN
           /\ self.done <=> last(self.last_result)

InBounds(action) ==
    \A k \in DOMAIN action :
        action_spec.minimum[k] <= action[k] /\ action[k] <= action_spec.maximum[k]

\* C4: every action the simulator receives in env.step lies within
\* [action_spec.minimum, action_spec.maximum], whatever action the agent supplied.
C4_ActionWithinBounds ==
    \A i \in DOMAIN calls :
        \A j \in DOMAIN calls[i].env_calls :
            calls[i].env_calls[j].method = "step" =>
                /\ Len(calls[i].env_calls[j].action) = action_spec.shape[1]
                /\ InBounds(calls[i].env_calls[j].action)

\* C4 witness: the agent supplied an out-of-bounds action and the simulator received
\* the clipped one.
C4_Witness ==
    \E i \in DOMAIN calls :
        /\ calls[i].op = "_take_action"
        /\ ~InBounds(calls[i].action)
        /\ Len(calls[i].env_calls) = 1
        /\ calls[i].env_calls[1].method = "step"
        /\ calls[i].env_calls[1].action # calls[i].action
        /\ calls[i].env_calls[1].action = clip_action_to_space(action_space, calls[i].action)

\* C5: a call of _take_action makes exactly one env.step call and no env.reset call,
\* whatever frame_skip is, and a call of _restart_environment_episode exactly one
\* env.reset call and no env.step call, whatever force_environment_reset is; the
\* result the simulator returned is stored as last_result.
C5_OneSimulatorCall ==
    \A i \in SimulatorCalls :
        LET c == calls[i]
        IN /\ c.op = "_take_action" =>
                 /\ Len(c.env_calls) = 1
                 /\ c.env_calls[1].method = "step"
           /\ c.op = "_restart_environment_episode" =>
                 /\ Len(c.env_calls) = 1
                 /\ c.env_calls[1].method = "reset"
           /\ ~c.env_raised =>
                 /\ c.raised = "none"
                 /\ c.after.last_result # None
                 /\ c.after.last_result = c.env_returned

\* C5 witness: with a frame_skip above 1, a step was taken in the middle of an
\* episode and its result stored.
C5_Witness ==
    /\ frame_skip > 1
    /\ pc = "update"
    /\ calls[1].op = "_take_action"
    /\ calls[1].env_calls = <<[method |-> "step",
                               action |-> action_to_step(action_space, calls[1].action)]>>
    /\ last_result.step_type = "MID"
    /\ last_result = calls[1].env_returned

\* C6: when env.step or env.reset raises, the failure propagates out of the wrapper
\* method (one call of the simulator, no retry, no value in place of the result, no
\* _update_state to follow), and last_result, state, reward and done keep the values
\* they had before the call; in __init__ these are the values Environment.__init__
\* gave.
C6_FailurePropagates ==
    [][\A i \in DOMAIN calls' :
          (calls'[i].op \in {"_take_action", "_restart_environment_episode"}
              /\ calls'[i].env_raised) =>
             /\ calls'[i].raised = "PhysicsError"
             /\ Len(calls'[i].env_calls) = 1
             /\ i = Len(calls')
             /\ pc' # "update"
             /\ IF pc = "new"
                THEN <<last_result', state', reward', done'>>
                         = <<Environment_init.last_result, Environment_init.state,
                             Environment_init.reward, Environment_init.done>>
                ELSE UNCHANGED <<last_result, state, reward, done>>]_vars

\* C6 witness: a step failed after an earlier result had been stored and read.
C6_Witness ==
    /\ pc = "idle"
    /\ calls[1].op = "_take_action"
    /\ calls[1].raised = "PhysicsError"
    /\ calls[1].env_raised
    /\ last_result # None
    /\ last_result.step_type = "MID"
    /\ state # EmptyDict

\* What an observation of the spec adds to the measurements space.
Contribution(entry) ==
    IF rank(entry) = 0 THEN 1 ELSE IF rank(entry) = 1 THEN entry.shape[1] ELSE 0

RECURSIVE Offset(_, _)
\* The number of measurements that come before observation i of the spec.
Offset(spec, i) == IF i <= 1 THEN 0 ELSE Offset(spec, i - 1) + Contribution(spec[i - 1])

\* C7: once __init__ has run, the state space has exactly the observations 'pixels' and
\* 'measurements'; the size of 'measurements' is the number of rank-0 observations
\* plus the lengths of the rank-1 observations, observations of rank 2 or more adding
\* nothing; measurements_names has that many entries, in the order of the spec, the
\* name itself for a rank-0 observation and name_0 .. name_{n-1} for a rank-1
\* observation of length n.
C7_DeclaredStateSpace ==
    pc # "new" =>
        /\ DOMAIN state_space = {"pixels", "measurements"}
        /\ LET spec == observation_spec
               m == state_space["measurements"]
               names == m.measurements_names
           IN /\ m.shape = Offset(spec, Len(spec) + 1)
              /\ Len(names) = m.shape
              /\ \A i \in DOMAIN spec :
                    /\ rank(spec[i]) = 0 => names[Offset(spec, i) + 1] = spec[i].name
                    /\ rank(spec[i]) = 1 =>
                          \A j \in 0..(spec[i].shape[1] - 1) :
                              names[Offset(spec, i) + j + 1]
                                  = spec[i].name \o "_" \o ToString(j)
                    /\ rank(spec[i]) >= 2 => Offset(spec, i + 1) = Offset(spec, i)

\* C7 witness: __init__ ran on a spec with a rank-0 observation, a rank-1 observation
\* of length 2 and the image, and declared 3 measurements.
C7_Witness ==
    /\ pc # "new"
    /\ \E i, j, k \in DOMAIN observation_spec :
          /\ rank(observation_spec[i]) = 0
          /\ rank(observation_spec[j]) = 1 /\ observation_spec[j].shape[1] = 2
          /\ rank(observation_spec[k]) >= 2
    /\ state_space["measurements"].shape = 3
    /\ state_space["measurements"].measurements_names[3]
          = observation_spec[2].name \o "_1"

Renamed(d, d0) ==
    /\ "measurements" \in DOMAIN d
    /\ d["measurements"] = d0["observation"]
    /\ "observation" \notin DOMAIN d
    /\ DOMAIN d \ {"measurements"} = DOMAIN d0 \ {"observation"}
    /\ \A k \in DOMAIN d0 \ {"observation"} : d[k] = d0[k]

\* C8: after the rename, the input embedders of the actor and of the critic have
\* 'measurements' with the value 'observation' had, have no 'observation', and every
\* other key has the value it had.
C8_PureRename ==
    /\ preset_pc \in {"actor_renamed", "done"} =>
          Renamed(network_wrappers.actor, default_wrappers.actor)
    /\ preset_pc = "actor_renamed" => network_wrappers.critic = default_wrappers.critic
    /\ preset_pc = "done" => Renamed(network_wrappers.critic, default_wrappers.critic)

\* C8 witness: both renames ran on a critic whose embedders differ.
C8_Witness ==
    /\ preset_pc = "done"
    /\ default_wrappers.critic["action"] # default_wrappers.critic["observation"]
    /\ network_wrappers.critic["measurements"] = default_wrappers.critic["observation"]
    /\ network_wrappers.critic["action"] = default_wrappers.critic["action"]

====
